---- MODULE Spec2Model ----
(***************************************************************************)
(* Model of config.c (awesome window manager): parse_config turns a parsed *)
(* libconfuse tree into per-screen layouts and tags, the rule list, the    *)
(* five mouse-binding lists and the key-binding list.                      *)
(***************************************************************************)
EXTENDS Integers, Sequences, FiniteSets, TLC

(* ------------------------------------------------------------------ *)
(* Bounds of the explored inputs                                       *)
(* ------------------------------------------------------------------ *)
MaxScreens == 11       \* outputs explored for the screen-section choice
SmallScreens == 2      \* outputs explored with varied layouts, tags, rules
MaxSections == 2       \* screen sections in a document
MaxLayouts == 2        \* layout sub-sections of a screen section
MaxTags == 2           \* tag sub-sections of a screen section
MaxRules == 3          \* rule sections
MaxBindings == 2       \* sections of one binding kind
MaxMods == 3           \* names in one modkey list
MaxKeyPerMod == 2      \* key codes per modifier in the modifier map

(* ------------------------------------------------------------------ *)
(* C values                                                            *)
(* ------------------------------------------------------------------ *)
NULL == "NULL"         \* the null pointer, for strings and functions
NULLPTR == 0           \* the null pointer, for list nodes (addresses are 1..)
BUFSIZE == 2           \* char buf[2]

ShiftMask == 1
LockMask == 2
ControlMask == 4
Mod1Mask == 8
Mod2Mask == 16
Mod3Mask == 32
Mod4Mask == 64
Mod5Mask == 128
NoSymbol == 0
Button1 == 1
Button2 == 2
Button3 == 3
Button4 == 4
Button5 == 5
RULE_NOSCREEN == -1
ModifierSlots == 8     \* for(i = 0; i < 8; i++)

Min(S) == CHOOSE x \in S : \A y \in S : x <= y

RECURSIVE BitOr(_, _)
BitOr(a, b) ==
    IF a = 0 THEN b
    ELSE IF b = 0 THEN a
    ELSE (IF a % 2 = 1 \/ b % 2 = 1 THEN 1 ELSE 0)
         + 2 * BitOr(a \div 2, b \div 2)

(* ------------------------------------------------------------------ *)
(* Symbol tables                                                       *)
(* ------------------------------------------------------------------ *)
KeyModList ==
    << [name |-> "Shift",   keysym |-> ShiftMask],
       [name |-> "Lock",    keysym |-> LockMask],
       [name |-> "Control", keysym |-> ControlMask],
       [name |-> "Mod1",    keysym |-> Mod1Mask],
       [name |-> "Mod2",    keysym |-> Mod2Mask],
       [name |-> "Mod3",    keysym |-> Mod3Mask],
       [name |-> "Mod4",    keysym |-> Mod4Mask],
       [name |-> "Mod5",    keysym |-> Mod5Mask] >>

MouseButtonList ==
    << [name |-> "1", button |-> Button1],
       [name |-> "2", button |-> Button2],
       [name |-> "3", button |-> Button3],
       [name |-> "4", button |-> Button4],
       [name |-> "5", button |-> Button5] >>

LayoutsList ==
    << [name |-> "tile",     func |-> "layout_tile"],
       [name |-> "tileleft", func |-> "layout_tileleft"],
       [name |-> "max",      func |-> "layout_max"],
       [name |-> "floating", func |-> "layout_floating"] >>

\* The command table is declared extern; these entries stand for it.
UicbList ==
    << [name |-> "spawn", func |-> "uicb_spawn"],
       [name |-> "quit",  func |-> "uicb_quit"] >>

\* Xlib's key-name table, as far as the explored documents use it.
XKeysyms ==
    << [name |-> "a",      keysym |-> 97],
       [name |-> "Return", keysym |-> 65293] >>

RECURSIVE key_mask_scan(_, _)
key_mask_scan(keyname, i) ==
    IF i > Len(KeyModList) THEN NoSymbol
    ELSE IF keyname = KeyModList[i].name THEN KeyModList[i].keysym
    ELSE key_mask_scan(keyname, i + 1)

key_mask_lookup(keyname) ==
    IF keyname # NULL THEN key_mask_scan(keyname, 1) ELSE NoSymbol

RECURSIVE mouse_button_scan(_, _)
mouse_button_scan(button, i) ==
    IF i > Len(MouseButtonList) THEN 0
    ELSE IF button = MouseButtonList[i].name THEN MouseButtonList[i].button
    ELSE mouse_button_scan(button, i + 1)

mouse_button_lookup(button) ==
    IF button # NULL THEN mouse_button_scan(button, 1) ELSE 0

RECURSIVE name_func_scan(_, _, _)
name_func_scan(funcname, list, i) ==
    IF i > Len(list) THEN NULL
    ELSE IF funcname = list[i].name THEN list[i].func
    ELSE name_func_scan(funcname, list, i + 1)

name_func_lookup(funcname, list) ==
    IF funcname # NULL THEN name_func_scan(funcname, list, 1) ELSE NULL

RECURSIVE keysym_scan(_, _)
keysym_scan(str, i) ==
    IF i > Len(XKeysyms) THEN NoSymbol
    ELSE IF str = XKeysyms[i].name THEN XKeysyms[i].keysym
    ELSE keysym_scan(str, i + 1)

XStringToKeysym(str) == keysym_scan(str, 1)

a_strdup(s) == s

(* ------------------------------------------------------------------ *)
(* snprintf(buf, sizeof(buf), "%d", screen)                            *)
(* Strings of digits are sequences of digits: "10" is <<1, 0>>.        *)
(* ------------------------------------------------------------------ *)
RECURSIVE Decimal(_)
Decimal(n) == IF n < 10 THEN <<n>> ELSE Decimal(n \div 10) \o <<n % 10>>

snprintf_d(size, n) ==
    LET s == Decimal(n)
    IN  IF Len(s) <= size - 1 THEN s ELSE SubSeq(s, 1, size - 1)

(* ------------------------------------------------------------------ *)
(* Singly linked lists: mem is the heap of one list, addresses 1..Len  *)
(* in allocation order; p_new returns zeroed memory.                   *)
(* ------------------------------------------------------------------ *)
p_new_Button ==
    [mod |-> 0, button |-> 0, func |-> NULL, arg |-> NULL, next |-> NULLPTR]

p_new_Key ==
    [mod |-> 0, keysym |-> 0, func |-> NULL, arg |-> NULL, next |-> NULLPTR]

p_new_Rule ==
    [prop |-> NULL, tags |-> NULL, isfloating |-> FALSE, screen |-> 0,
     next |-> NULLPTR]

\* cfg_size of a multi-section or list option: the number of its values
cfg_size(values) == Len(values)

\* a slip that compares with the size instead of size - 1
has_next_off_by_one(i, n) == i < n

\* i < cfg_size(...) - 1, in unsigned int arithmetic: 0 - 1 wraps to
\* UINT_MAX, which is above every index
has_next(i, n) == IF n = 0 THEN TRUE ELSE i < n - 1

\* a slip that assigns the looked-up mask instead of or-ing it in
RECURSIVE compose_mod_assign(_, _, _)
compose_mod_assign(mod, modkey, j) ==
    IF j < cfg_size(modkey)
    THEN compose_mod_assign(key_mask_lookup(modkey[j + 1]), modkey, j + 1)
    ELSE mod

\* for(j = 0; j < cfg_size(sec, "modkey"); j++) mod |= key_mask_lookup(...)
RECURSIVE compose_mod(_, _, _)
compose_mod(mod, modkey, j) ==
    IF j < cfg_size(modkey)
    THEN compose_mod(BitOr(mod, key_mask_lookup(modkey[j + 1])), modkey, j + 1)
    ELSE mod

\* a slip that reports nothing for an unknown command
no_command_warning(warn, func, command) == warn

\* if(!b->func) warn("unknown command %s\n", ...)
unknown_command_warning(warn, func, command) ==
    IF func = NULL THEN Append(warn, <<"unknown command", command>>) ELSE warn

\* a slip that tests handle_arg the wrong way round
button_arg_inverted(handle_arg, sec) ==
    IF handle_arg THEN NULL ELSE a_strdup(sec.arg)

\* b->arg of a mouse binding
button_arg(handle_arg, sec) ==
    IF handle_arg THEN a_strdup(sec.arg) ELSE NULL

\* One iteration of the loop of parse_mouse_bindings.
\* st = [mem, b, head, warn]: the heap, the current node, the head, the
\* warnings emitted so far.
mouse_iter(secs, handle_arg, i, st) ==
    LET st1 == IF i = 0
               THEN [st EXCEPT !.mem = Append(@, p_new_Button),
                               !.b = Len(st.mem) + 1,
                               !.head = Len(st.mem) + 1]
               ELSE st
        sec == secs[i + 1]
        b == st1.b
        func == name_func_lookup(sec.command, UicbList)
        filled == [st1.mem[b] EXCEPT
                      !.mod = compose_mod(@, sec.modkey, 0),
                      !.button = mouse_button_lookup(sec.button),
                      !.func = func,
                      !.arg = button_arg(handle_arg, sec)]
        warn1 == unknown_command_warning(st1.warn, func, sec.command)
        mem1 == [st1.mem EXCEPT ![b] = filled]
    IN  IF has_next(i, cfg_size(secs))
        THEN [mem  |-> Append([mem1 EXCEPT ![b].next = Len(mem1) + 1],
                              p_new_Button),
              b    |-> Len(mem1) + 1,
              head |-> st1.head,
              warn |-> warn1]
        ELSE [mem  |-> [mem1 EXCEPT ![b].next = NULLPTR],
              b    |-> b,
              head |-> st1.head,
              warn |-> warn1]

RECURSIVE mouse_loop(_, _, _, _)
mouse_loop(secs, handle_arg, i, st) ==
    IF i < cfg_size(secs)
    THEN mouse_loop(secs, handle_arg, i + 1, mouse_iter(secs, handle_arg, i, st))
    ELSE st

parse_mouse_bindings(secs, handle_arg) ==
    LET st == mouse_loop(secs, handle_arg, 0,
                         [mem |-> <<>>, b |-> NULLPTR, head |-> NULLPTR,
                          warn |-> <<>>])
    IN  [head |-> st.head, mem |-> st.mem, warn |-> st.warn]

\* One iteration of the key loop of parse_config.
key_iter(secs, j, st) ==
    LET sec == secs[j + 1]
        k == st.b
        func == name_func_lookup(sec.command, UicbList)
        filled == [st.mem[k] EXCEPT
                      !.mod = compose_mod(@, sec.modkey, 0),
                      !.keysym = XStringToKeysym(sec.key),
                      !.func = func,
                      !.arg = a_strdup(sec.arg)]
        warn1 == unknown_command_warning(st.warn, func, sec.command)
        mem1 == [st.mem EXCEPT ![k] = filled]
    IN  IF has_next(j, cfg_size(secs))
        THEN [mem  |-> Append([mem1 EXCEPT ![k].next = Len(mem1) + 1],
                              p_new_Key),
              b    |-> Len(mem1) + 1,
              head |-> st.head,
              warn |-> warn1]
        ELSE [mem  |-> [mem1 EXCEPT ![k].next = NULLPTR],
              b    |-> k,
              head |-> st.head,
              warn |-> warn1]

RECURSIVE key_loop(_, _, _)
key_loop(secs, j, st) ==
    IF j < cfg_size(secs)
    THEN key_loop(secs, j + 1, key_iter(secs, j, st))
    ELSE st

parse_keys(secs) ==
    IF cfg_size(secs) # 0
    THEN LET st == key_loop(secs, 0,
                            [mem |-> <<p_new_Key>>, b |-> 1, head |-> 1,
                             warn |-> <<>>])
         IN  [head |-> st.head, mem |-> st.mem, warn |-> st.warn]
    ELSE [head |-> NULLPTR, mem |-> <<>>, warn |-> <<>>]

\* a slip that compares with > instead of >=
rule_screen_gt(declared, count) ==
    IF declared > count THEN 0 ELSE declared

\* a slip that clamps to the last screen instead of screen 0
rule_screen_last(declared, count) ==
    IF declared >= count THEN count - 1 ELSE declared

\* if(rule->screen >= get_screen_count(...)) rule->screen = 0;
rule_screen(declared, count) ==
    IF declared >= count THEN 0 ELSE declared

\* if(!a_strlen(rule->tags)) rule->tags = NULL;
rule_tags(tags) == IF tags = "" THEN NULL ELSE a_strdup(tags)

\* One iteration of the rule loop of parse_config.
rule_iter(secs, count, j, st) ==
    LET sec == secs[j + 1]
        r == st.b
        filled == [st.mem[r] EXCEPT
                      !.prop = a_strdup(sec.name),
                      !.tags = rule_tags(sec.tags),
                      !.isfloating = sec.float,
                      !.screen = rule_screen(sec.screen, count)]
        mem1 == [st.mem EXCEPT ![r] = filled]
    IN  IF has_next(j, cfg_size(secs))
        THEN [mem  |-> Append([mem1 EXCEPT ![r].next = Len(mem1) + 1],
                              p_new_Rule),
              b    |-> Len(mem1) + 1,
              head |-> st.head]
        ELSE [mem  |-> [mem1 EXCEPT ![r].next = NULLPTR],
              b    |-> r,
              head |-> st.head]

RECURSIVE rule_loop(_, _, _, _)
rule_loop(secs, count, j, st) ==
    IF j < cfg_size(secs)
    THEN rule_loop(secs, count, j + 1, rule_iter(secs, count, j, st))
    ELSE st

parse_rules(secs, count) ==
    IF cfg_size(secs) # 0
    THEN LET st == rule_loop(secs, count, 0,
                             [mem |-> <<p_new_Rule>>, b |-> 1, head |-> 1])
         IN  [head |-> st.head, mem |-> st.mem]
    ELSE [head |-> NULLPTR, mem |-> <<>>]

\* The nodes of a list in link order, following next from head.  A list
\* whose links never reach the null pointer is cut after Len(mem) + 1 nodes.
RECURSIVE Walk(_, _, _)
Walk(mem, p, fuel) ==
    IF p = NULLPTR \/ fuel = 0 \/ p > Len(mem) THEN <<>>
    ELSE <<mem[p]>> \o Walk(mem, mem[p].next, fuel - 1)

Nodes(list) == Walk(list.mem, list.head, Len(list.mem) + 1)

(* ------------------------------------------------------------------ *)
(* get_numlockmask                                                     *)
(* A keyboard is [max_keypermod, modifiermap, numlock]: the modifier   *)
(* map of XGetModifierMapping, ModifierSlots * max_keypermod key codes *)
(* where 0 fills an unused entry, and XKeysymToKeycode(XK_Num_Lock),   *)
(* which is 0 when no key code has that keysym.                        *)
(* ------------------------------------------------------------------ *)
\* the two loops, entry by entry: p = i * max_keypermod + j
RECURSIVE numlock_scan(_, _, _)
numlock_scan(kb, p, mask) ==
    IF p < ModifierSlots * kb.max_keypermod
    THEN numlock_scan(kb, p + 1,
                      IF kb.modifiermap[p + 1] = kb.numlock
                      THEN 2 ^ (p \div kb.max_keypermod)
                      ELSE mask)
    ELSE mask

get_numlockmask(kb) == numlock_scan(kb, 0, 0)

(* ------------------------------------------------------------------ *)
(* The configuration tree (libconfuse)                                 *)
(* A document is [screen, rules, keys, mouse]: the screen sections in  *)
(* declaration order, the rule sections, the key sections and, per     *)
(* mouse binding kind, its sections.                                   *)
(* ------------------------------------------------------------------ *)
MouseKinds == {"tag", "layout", "title", "root", "client"}

\* cfg_init(opts, CFGF_NONE): no section declared yet
cfg_init ==
    [screen |-> <<>>, rules |-> <<>>, keys |-> <<>>,
     mouse |-> [k \in MouseKinds |-> <<>>]]

\* cfg_gettsec(cfg, "screen", title): the first section with that title;
\* 0 stands for the null pointer, sections are numbered from 1.
RECURSIVE gettsec_scan(_, _, _)
gettsec_scan(secs, title, i) ==
    IF i > Len(secs) THEN 0
    ELSE IF secs[i].title = title THEN i
    ELSE gettsec_scan(secs, title, i + 1)

cfg_gettsec(secs, title) == gettsec_scan(secs, title, 1)

\* cfg_getsec(cfg, "screen"): the first section of that name, if any
cfg_getsec(secs) == IF Len(secs) > 0 THEN 1 ELSE 0

\* The built-in document: one shared (untitled) screen section with two
\* layouts and two tags, and one key binding.
AWESOME_DEFAULT_CONFIG ==
    [screen |-> << [title |-> <<>>,
                    layouts |-> << [title |-> "tile", symbol |-> "[]="],
                                   [title |-> "max", symbol |-> "[ ]"] >>,
                    tags |-> << [title |-> "one", layout |-> "tile"],
                                [title |-> "two", layout |-> "tile"] >>] >>,
     rules |-> <<>>,
     keys |-> << [modkey |-> <<"Mod4">>, button |-> "None", key |-> "Return",
                  command |-> "spawn", arg |-> "xterm"] >>,
     mouse |-> [k \in MouseKinds |-> <<>>]]

\* cfg_parse_buf(cfg, text): the screen sections of text are added after
\* those already there; rules, keys and mouse are single sections, which a
\* new parse sets anew.
cfg_parse_buf(cfg, doc) ==
    [screen |-> cfg.screen \o doc.screen,
     rules  |-> doc.rules,
     keys   |-> doc.keys,
     mouse  |-> doc.mouse]

\* snprintf(buf, ...); cfg_gettsec; if(!cfg_screen) cfg_getsec
find_screen_section(secs, screen) ==
    LET buf == snprintf_d(BUFSIZE, screen)
        byTitle == cfg_gettsec(secs, buf)
    IN  IF byTitle # 0 THEN byTitle ELSE cfg_getsec(secs)

(* ------------------------------------------------------------------ *)
(* Layouts and tags of one screen                                      *)
(* ------------------------------------------------------------------ *)
layout_entry(sec) ==
    LET arrange == name_func_lookup(sec.title, LayoutsList)
    IN  IF arrange = NULL
        THEN [arrange |-> NULL, symbol |-> NULL]
        ELSE [arrange |-> arrange, symbol |-> a_strdup(sec.symbol)]

parse_layouts(secs) == [i \in 1..cfg_size(secs) |-> layout_entry(secs[i])]

layout_warnings(secs) ==
    LET unknown(i) == name_func_lookup(secs[i].title, LayoutsList) = NULL
        F[i \in 0..Len(secs)] ==
            IF i = 0 THEN <<>>
            ELSE IF unknown(i)
                 THEN Append(F[i - 1], <<"unknown layout", secs[i].title>>)
                 ELSE F[i - 1]
    IN  F[Len(secs)]

\* if(!awesomeconf->screens[screen].nlayouts) eprint(...)
no_layout(nlayouts) == nlayouts = 0

\* a slip that keeps the last matching layout instead of the first
RECURSIVE layout_scan_last(_, _, _, _)
layout_scan_last(layouts, nlayouts, arrange, k) ==
    IF k < nlayouts
    THEN LET later == layout_scan_last(layouts, nlayouts, arrange, k + 1)
         IN  IF later < nlayouts THEN later
             ELSE IF layouts[k + 1].arrange = arrange THEN k ELSE nlayouts
    ELSE k

\* for(k = 0; k < nlayouts; k++) if(layouts[k].arrange == ...) break;
RECURSIVE layout_scan(_, _, _, _)
layout_scan(layouts, nlayouts, arrange, k) ==
    IF k < nlayouts
    THEN IF layouts[k + 1].arrange = arrange THEN k
         ELSE layout_scan(layouts, nlayouts, arrange, k + 1)
    ELSE k

\* The index k of the layout a tag points to: &layouts[k]
tag_layout(layouts, nlayouts, tmp) ==
    LET k == layout_scan(layouts, nlayouts,
                         name_func_lookup(tmp, LayoutsList), 0)
    IN  IF k = nlayouts THEN 0 ELSE k

tag_entry(sec, layouts, nlayouts) ==
    [name |-> a_strdup(sec.title),
     selected |-> FALSE,
     was_selected |-> FALSE,
     layout |-> tag_layout(layouts, nlayouts, sec.layout)]

parse_tags(secs, layouts, nlayouts) ==
    [i \in 1..cfg_size(secs) |-> tag_entry(secs[i], layouts, nlayouts)]

\* a slip that selects the last tag instead of the first
select_last_tag(tags) ==
    [tags EXCEPT ![Len(tags)].selected = TRUE, ![Len(tags)].was_selected = TRUE]

\* tags[0].selected = True; tags[0].was_selected = True;
select_first_tag(tags) ==
    [tags EXCEPT ![1].selected = TRUE, ![1].was_selected = TRUE]

(* ------------------------------------------------------------------ *)
(* The explored inputs: the configuration file and the display         *)
(* ------------------------------------------------------------------ *)
SeqsUpTo(S, n) == UNION {[1..k -> S] : k \in 0..n}

LayoutTitles == {"tile", "max", "bogus"}
TagLayoutNames == {"tile", "max", "bogus", "nosuch"}
SectionTitles == {<<>>, <<0>>, <<1>>, <<1, 0>>}
RuleScreens == {RULE_NOSCREEN, -2, 0, 1, 2, 99}
ModNames == {"Control", "Mod1", "Hyper"}

\* layout sections with the given titles; the symbol tells the sections apart
LayoutSecs(titles) ==
    [i \in 1..Len(titles) |->
        [title |-> titles[i], symbol |-> "sym" \o ToString(i)]]

\* tag sections declaring the given layout names
TagSecs(names) ==
    [i \in 1..Len(names) |->
        [title |-> "tag" \o ToString(i), layout |-> names[i]]]

ScreenSec(title, layoutTitles, tagLayouts) ==
    [title |-> title,
     layouts |-> LayoutSecs(layoutTitles),
     tags |-> TagSecs(tagLayouts)]

StdScreenSec(title) == ScreenSec(title, <<"tile", "max">>, <<"tile">>)

RuleSec(declared) ==
    [name |-> "Gimp",
     tags |-> IF declared < 0 THEN "" ELSE "3",
     float |-> declared = 0,
     screen |-> declared]

BindingSecs ==
    { [modkey |-> <<"Mod4">>, button |-> "1", key |-> "a",
       command |-> "spawn", arg |-> "xterm"],
      [modkey |-> <<>>, button |-> "3", key |-> "Return",
       command |-> "nonexistent-command", arg |-> NULL],
      [modkey |-> <<"Control", "Mod1">>, button |-> "2", key |-> "F99",
       command |-> "quit", arg |-> NULL],
      [modkey |-> <<"Mod4">>, button |-> "None", key |-> "None",
       command |-> "", arg |-> "1"] }

ModSec(modkey) ==
    [modkey |-> modkey, button |-> "1", key |-> "a",
     command |-> "spawn", arg |-> NULL]

StdDoc ==
    [screen |-> <<StdScreenSec(<<0>>)>>, rules |-> <<>>, keys |-> <<>>,
     mouse |-> [k \in MouseKinds |-> <<>>]]

\* a document whose binding list of the given kind is secs
BindingDoc(kind, secs) ==
    IF kind = "key"
    THEN [StdDoc EXCEPT !.keys = secs]
    ELSE [StdDoc EXCEPT !.mouse[kind] = secs]

BindingKinds == MouseKinds \cup {"key"}

\* a document whose six binding lists all declare secs
AllBindingsDoc(secs) ==
    [StdDoc EXCEPT !.keys = secs, !.mouse = [k \in MouseKinds |-> secs]]

\* documents that vary the screen sections
SectionDocs ==
    { [StdDoc EXCEPT !.screen = [i \in 1..Len(t) |-> StdScreenSec(t[i])]] :
        t \in SeqsUpTo(SectionTitles, MaxSections) }

\* documents that vary the layouts and tags of the one screen section
LayoutDocs ==
    { [StdDoc EXCEPT !.screen = <<ScreenSec(<<0>>, l, t)>>] :
        l \in SeqsUpTo(LayoutTitles, MaxLayouts),
        t \in SeqsUpTo(TagLayoutNames, MaxTags) }

\* documents that vary the rules
RuleDocs ==
    { [StdDoc EXCEPT !.rules = [i \in 1..Len(r) |-> RuleSec(r[i])]] :
        r \in SeqsUpTo(RuleScreens, MaxRules) }

\* documents that vary one binding list
BindingDocs ==
    { BindingDoc(kind, secs) :
        kind \in BindingKinds, secs \in SeqsUpTo(BindingSecs, MaxBindings) }
    \cup
    { BindingDoc(kind, <<ModSec(m)>>) :
        kind \in BindingKinds, m \in SeqsUpTo(ModNames, MaxMods) }
    \cup
    { AllBindingsDoc(secs) : secs \in SeqsUpTo(BindingSecs, MaxBindings) }

Readable(doc) == [readable |-> TRUE, doc |-> doc]
Unreadable == [readable |-> FALSE, doc |-> cfg_init]

\* the pairs (configuration file, display) a run starts from
Inputs ==
    { <<Readable(d), [count |-> n, alloc_ok |-> TRUE]>> :
        d \in SectionDocs, n \in 1..MaxScreens }
    \cup
    { <<Readable(d), [count |-> n, alloc_ok |-> TRUE]>> :
        d \in LayoutDocs \cup RuleDocs, n \in 1..SmallScreens }
    \cup
    { <<Readable(d), [count |-> 1, alloc_ok |-> TRUE]>> : d \in BindingDocs }
    \cup
    { <<f, [count |-> n, alloc_ok |-> ok]>> :
        f \in {Unreadable, Readable(StdDoc)}, n \in 1..SmallScreens,
        ok \in BOOLEAN }

NumLockCode == 77      \* the key code of Num Lock where it has one
OtherCode == 50        \* the key code of some other modifier key
KeyCodes == {0, NumLockCode, OtherCode}

\* a keyboard whose Mod2 is Num Lock, as on a common PC keyboard
StdKeyboard ==
    [max_keypermod |-> 1,
     modifiermap |-> [p \in 1..ModifierSlots |->
                         IF p = 5 THEN NumLockCode ELSE 0],
     numlock |-> NumLockCode]

\* modifier maps that are unused (0) or another key everywhere but in two
\* entries
ModifierMaps(n) ==
    { [p \in 1..(ModifierSlots * n) |->
          IF p = a THEN va ELSE IF p = b THEN vb ELSE fill] :
        a \in 1..(ModifierSlots * n), b \in 1..(ModifierSlots * n),
        va \in KeyCodes, vb \in KeyCodes, fill \in {0, OtherCode} }

Keyboards ==
    UNION { { [max_keypermod |-> n, modifiermap |-> m, numlock |-> c] :
                m \in ModifierMaps(n), c \in {0, NumLockCode} } :
            n \in 1..MaxKeyPerMod }

(* ------------------------------------------------------------------ *)
(* State                                                               *)
(* ------------------------------------------------------------------ *)
VARIABLES
    file,        \* the configuration file: readable or not, and its document
    display,     \* the X display: screen count, whether fonts/colors allocate
    keyboard,    \* the X display: modifier map and Num Lock key code
    cfg,         \* the libconfuse tree
    pc,          \* position in parse_config
    screen,      \* the loop variable of the screen loop
    cfg_screen,  \* the screen section in use (index into cfg.screen, 0 = NULL)
    screens,     \* awesomeconf->screens
    rules,       \* awesomeconf->rules
    buttons,     \* awesomeconf->buttons
    keys,        \* awesomeconf->keys
    numlockmask, \* awesomeconf->numlockmask
    warnings,    \* what was written to the diagnostic channel
    fatal        \* the message of the fatal exit, NULL while running

vars == <<file, display, keyboard, numlockmask, cfg, pc, screen, cfg_screen, screens, rules,
          buttons, keys, warnings, fatal>>

EmptyList == [head |-> NULLPTR, mem |-> <<>>]

EmptyScreen ==
    [sec |-> 0, nlayouts |-> 0, layouts |-> <<>>, ntags |-> 0, tags |-> <<>>]

get_screen_count == display.count

Init ==
    /\ \/ \E in \in Inputs :
              file = in[1] /\ display = in[2] /\ keyboard = StdKeyboard
       \/ /\ file = Readable(StdDoc)
          /\ display = [count |-> 1, alloc_ok |-> TRUE]
          /\ keyboard \in Keyboards
    /\ numlockmask = 0
    /\ cfg = cfg_init
    /\ pc = "parse"
    /\ screen = 0
    /\ cfg_screen = 0
    /\ screens = [s \in 0..(display.count - 1) |-> EmptyScreen]
    /\ rules = EmptyList
    /\ buttons = [k \in MouseKinds |-> EmptyList]
    /\ keys = EmptyList
    /\ warnings = <<>>
    /\ fatal = NULL

\* the position after one turn of the screen loop, or before the first
screen_loop_pc(next) == IF next < get_screen_count THEN "section" ELSE "rules"

\* cfg_init; cfg_parse; on CFG_FILE_ERROR the built-in document is parsed
ParseFile ==
    /\ pc = "parse"
    /\ cfg' = IF file.readable THEN file.doc
              ELSE cfg_parse_buf(cfg_init, AWESOME_DEFAULT_CONFIG)
    /\ warnings' = IF file.readable THEN warnings
                   ELSE Append(warnings, <<"parsing configuration file failed", "">>)
    /\ screen' = 0
    /\ pc' = screen_loop_pc(0)
    /\ UNCHANGED <<keyboard, numlockmask, file, display, cfg_screen, screens, rules, buttons, keys,
                   fatal>>

\* "get the right screen section"
GetScreenSection ==
    /\ pc = "section"
    /\ LET found == find_screen_section(cfg.screen, screen)
           cfg1 == IF found # 0 THEN cfg
                   ELSE cfg_parse_buf(cfg, AWESOME_DEFAULT_CONFIG)
           sec == IF found # 0 THEN found ELSE cfg_getsec(cfg1.screen)
       IN  /\ cfg' = cfg1
           /\ cfg_screen' = sec
           /\ screens' = [screens EXCEPT ![screen].sec = sec]
           /\ warnings' = IF found # 0 THEN warnings
                          ELSE Append(warnings, <<"no screen section found", "">>)
    /\ pc' = "general"
    /\ UNCHANGED <<keyboard, numlockmask, file, display, screen, rules, buttons, keys, fatal>>

\* general section and colors: a font or color that cannot be allocated
\* ends the process
General ==
    /\ pc = "general"
    /\ IF display.alloc_ok
       THEN pc' = "layouts" /\ fatal' = fatal
       ELSE pc' = "abort" /\ fatal' = "cannot init font"
    /\ UNCHANGED <<keyboard, numlockmask, file, display, cfg, screen, cfg_screen, screens, rules,
                   buttons, keys, warnings>>

Layouts ==
    /\ pc = "layouts"
    /\ LET secs == cfg.screen[cfg_screen].layouts
           nlayouts == cfg_size(secs)
       IN  /\ screens' = [screens EXCEPT ![screen].nlayouts = nlayouts,
                                         ![screen].layouts = parse_layouts(secs)]
           /\ warnings' = warnings \o layout_warnings(secs)
           /\ IF no_layout(nlayouts)
              THEN pc' = "abort" /\ fatal' = "no default layout available"
              ELSE pc' = "tags" /\ fatal' = fatal
    /\ UNCHANGED <<keyboard, numlockmask, file, display, cfg, screen, cfg_screen, rules, buttons, keys>>

Tags ==
    /\ pc = "tags"
    /\ LET secs == cfg.screen[cfg_screen].tags
           ntags == cfg_size(secs)
           tags == parse_tags(secs, screens[screen].layouts,
                              screens[screen].nlayouts)
       IN  IF ntags = 0
           THEN /\ screens' = [screens EXCEPT ![screen].ntags = ntags,
                                              ![screen].tags = tags]
                /\ pc' = "abort"
                /\ fatal' = "no tags found in configuration file"
                /\ screen' = screen
           ELSE /\ screens' = [screens EXCEPT ![screen].ntags = ntags,
                                              ![screen].tags = select_first_tag(tags)]
                /\ pc' = screen_loop_pc(screen + 1)
                /\ fatal' = fatal
                /\ screen' = screen + 1
    /\ UNCHANGED <<keyboard, numlockmask, file, display, cfg, cfg_screen, rules, buttons, keys, warnings>>

Rules ==
    /\ pc = "rules"
    /\ rules' = parse_rules(cfg.rules, get_screen_count)
    /\ pc' = "mouse"
    /\ UNCHANGED <<keyboard, numlockmask, file, display, cfg, screen, cfg_screen, screens, buttons,
                   keys, warnings, fatal>>

\* whether parse_config asks parse_mouse_bindings to handle "arg"
mouse_handle_arg(kind) == kind # "tag"

Mouse ==
    /\ pc = "mouse"
    /\ LET built == [k \in MouseKinds |->
                        parse_mouse_bindings(cfg.mouse[k], mouse_handle_arg(k))]
       IN  /\ buttons' = [k \in MouseKinds |->
                             [head |-> built[k].head, mem |-> built[k].mem]]
           /\ warnings' = warnings \o built["tag"].warn \o built["layout"].warn
                            \o built["title"].warn \o built["root"].warn
                            \o built["client"].warn
    /\ pc' = "keys"
    /\ UNCHANGED <<keyboard, numlockmask, file, display, cfg, screen, cfg_screen, screens, rules,
                   keys, fatal>>

Keys ==
    /\ pc = "keys"
    /\ numlockmask' = get_numlockmask(keyboard)
    /\ LET built == parse_keys(cfg.keys)
       IN  /\ keys' = [head |-> built.head, mem |-> built.mem]
           /\ warnings' = warnings \o built.warn
    /\ pc' = "done"
    /\ UNCHANGED <<keyboard, file, display, cfg, screen, cfg_screen, screens, rules,
                   buttons, fatal>>

Next ==
    \/ ParseFile
    \/ GetScreenSection
    \/ General
    \/ Layouts
    \/ Tags
    \/ Rules
    \/ Mouse
    \/ Keys

Spec == Init /\ [][Next]_vars

(* ------------------------------------------------------------------ *)
(* Properties                                                          *)
(* ------------------------------------------------------------------ *)
Range(f) == {f[i] : i \in DOMAIN f}

Screens == 0..(get_screen_count - 1)

\* the screens whose turn of the screen loop has completed
ScreenDone(s) == s \in Screens /\ s < screen

\* the section a completed screen was configured from
SectionOf(s) == cfg.screen[screens[s].sec]

AfterRules == pc \in {"mouse", "keys", "done"}
AfterMouse == pc \in {"keys", "done"}

\* C1: when parse_config has completed, every screen has exactly one
\* selected tag, the first declared one, which also has was_selected set;
\* every other tag has selected and was_selected clear.
C1_FirstTagSelected ==
    pc = "done" =>
        \A s \in Screens :
            LET tags == screens[s].tags
            IN  /\ screens[s].ntags = Len(SectionOf(s).tags)
                /\ Len(tags) = screens[s].ntags
                /\ Len(tags) >= 1
                /\ tags[1].name = SectionOf(s).tags[1].title
                /\ tags[1].selected /\ tags[1].was_selected
                /\ \A i \in 2..Len(tags) :
                       ~tags[i].selected /\ ~tags[i].was_selected
                /\ Cardinality({i \in 1..Len(tags) : tags[i].selected}) = 1

C1_Witness ==
    /\ pc = "done"
    /\ get_screen_count >= 2
    /\ \A s \in Screens : screens[s].ntags >= 2 /\ screens[s].tags[1].selected

\* C2 as claimed: after resolution every rule's screen is in
\* [0, screen count), whatever value was declared.
C2_RuleScreenInRange ==
    AfterRules =>
        \A k \in 1..Len(Nodes(rules)) :
            Nodes(rules)[k].screen \in 0..(get_screen_count - 1)

\* C2 as amended: after resolution every rule's screen is below the screen
\* count; it is in [0, screen count) when the declared value is >= 0, and
\* it is the declared value, unchanged, when that is negative
\* (RULE_NOSCREEN included).
C2_RuleScreenBelowCount ==
    AfterRules =>
        /\ Len(Nodes(rules)) = Len(cfg.rules)
        /\ \A k \in 1..Len(cfg.rules) :
               LET declared == cfg.rules[k].screen
                   resolved == Nodes(rules)[k].screen
               IN  /\ resolved < get_screen_count
                   /\ declared >= 0 => resolved \in 0..(get_screen_count - 1)
                   /\ declared < 0 => resolved = declared

C2_Witness ==
    /\ pc = "done"
    /\ \E k \in 1..Len(cfg.rules) :
           /\ cfg.rules[k].screen = RULE_NOSCREEN
           /\ Nodes(rules)[k].screen = RULE_NOSCREEN
    /\ \E k \in 1..Len(cfg.rules) :
           /\ cfg.rules[k].screen >= get_screen_count
           /\ Nodes(rules)[k].screen = 0

\* the titles of the layout sections of a screen section
LayoutTitlesOf(sec) == {sec.layouts[i].title : i \in 1..Len(sec.layouts)}

\* C3 as claimed: a tag whose declared layout name is not the title of any
\* layout section of its screen points to the screen's first layout.
C3_UnlistedLayoutIsFirst ==
    \A s \in Screens :
        ScreenDone(s) =>
            \A i \in 1..Len(SectionOf(s).tags) :
                SectionOf(s).tags[i].layout \notin LayoutTitlesOf(SectionOf(s))
                    => screens[s].tags[i].layout = 0

(* ---- what a binding section declares, stated from the tables ---- *)
TableNames(list) == {list[i].name : i \in 1..Len(list)}

\* the function a name stands for in a name/function table, NULL if none
FuncNamed(name, list) ==
    IF name \in TableNames(list)
    THEN list[Min({i \in 1..Len(list) : list[i].name = name})].func
    ELSE NULL

\* the button a name stands for, 0 if none
ButtonNamed(name) ==
    IF name \in TableNames(MouseButtonList)
    THEN MouseButtonList[Min({i \in 1..Len(MouseButtonList) :
                                 MouseButtonList[i].name = name})].button
    ELSE 0

Pow2(b) == IF b = 0 THEN 1 ELSE IF b = 1 THEN 2 ELSE IF b = 2 THEN 4
           ELSE IF b = 3 THEN 8 ELSE IF b = 4 THEN 16 ELSE IF b = 5 THEN 32
           ELSE IF b = 6 THEN 64 ELSE 128

Bit(m, b) == (m \div Pow2(b)) % 2 = 1

\* mod is the bitwise OR of the table masks of the names: a bit is set in
\* mod exactly when some name's mask has it
IsOrOfMasks(mod, names) ==
    /\ mod \in 0..255
    /\ \A b \in 0..7 :
           Bit(mod, b) <=>
               \E j \in 1..Len(names) : Bit(key_mask_lookup(names[j]), b)

\* the sections and the list of a binding kind
SecsOf(kind) == IF kind = "key" THEN cfg.keys ELSE cfg.mouse[kind]
ListOf(kind) == IF kind = "key" THEN keys ELSE buttons[kind]
Built(kind) == IF kind = "key" THEN pc = "done" ELSE AfterMouse

\* the trigger of a node: the button of a mouse binding, the keysym of a key
TriggerOf(kind, node) == IF kind = "key" THEN node.keysym ELSE node.button
DeclaredTrigger(kind, sec) ==
    IF kind = "key" THEN XStringToKeysym(sec.key) ELSE ButtonNamed(sec.button)
DeclaredArg(kind, sec) == IF kind = "tag" THEN NULL ELSE sec.arg

\* C4: for every binding kind with N declared sections the list has exactly
\* N nodes, node k holds what section k declares, the last node's next is
\* null and no other is; with N = 0 the head is null and nothing is allocated.
C4_ListMatchesSections ==
    \A kind \in BindingKinds :
        Built(kind) =>
            LET secs == SecsOf(kind)
                list == ListOf(kind)
                nodes == Nodes(list)
                N == Len(secs)
            IN  /\ Len(nodes) = N
                /\ Len(list.mem) = N
                /\ N = 0 => list.head = NULLPTR
                /\ N > 0 => list.head # NULLPTR
                /\ \A k \in 1..N :
                       /\ nodes[k].next = NULLPTR <=> k = N
                       /\ TriggerOf(kind, nodes[k]) = DeclaredTrigger(kind, secs[k])
                       /\ nodes[k].func = FuncNamed(secs[k].command, UicbList)
                       /\ nodes[k].arg = DeclaredArg(kind, secs[k])
                       /\ IsOrOfMasks(nodes[k].mod, secs[k].modkey)

C4_Witness ==
    /\ pc = "done"
    /\ \E kind \in MouseKinds :
           /\ Len(cfg.mouse[kind]) = MaxBindings
           /\ cfg.mouse[kind][1] # cfg.mouse[kind][2]
           /\ Len(Nodes(buttons[kind])) = MaxBindings
    /\ keys.head = NULLPTR
    /\ Len(cfg.keys) = 0

\* C5: the rule list has one node per declared rule, in declaration order;
\* a declared screen >= the screen count resolves to 0 and a declared screen
\* in [0, screen count) is kept, whatever the other rules declare.
C5_RuleScreenClamped ==
    AfterRules =>
        /\ Len(Nodes(rules)) = Len(cfg.rules)
        /\ Len(rules.mem) = Len(cfg.rules)
        /\ \A k \in 1..Len(cfg.rules) :
               LET declared == cfg.rules[k].screen
                   node == Nodes(rules)[k]
               IN  /\ declared >= get_screen_count => node.screen = 0
                   /\ declared \in 0..(get_screen_count - 1)
                          => node.screen = declared
                   /\ node.prop = cfg.rules[k].name
                   /\ node.isfloating = cfg.rules[k].float
                   /\ node.next = NULLPTR <=> k = Len(cfg.rules)

C5_Witness ==
    /\ pc = "done"
    /\ get_screen_count = 2
    /\ Len(cfg.rules) = 3
    /\ cfg.rules[1].screen = 0 /\ Nodes(rules)[1].screen = 0
    /\ cfg.rules[2].screen = 1 /\ Nodes(rules)[2].screen = 1
    /\ cfg.rules[3].screen = 99 /\ Nodes(rules)[3].screen = 0

\* whether some layout of a screen's layout list resolved
SomeLayoutResolved(s) ==
    \E k \in 1..Len(screens[s].layouts) : screens[s].layouts[k].arrange # NULL

\* C6 as claimed: when no layout of a screen resolves, parse_config exits
\* before that screen's tags, the rules and the bindings are built.
C6_NoLayoutIsFatal ==
    /\ pc = "tags" => SomeLayoutResolved(screen)
    /\ \A s \in Screens : ScreenDone(s) => SomeLayoutResolved(s)

\* the sections of a kind with section k's command replaced by a known one
WithKnownCommand(secs, k) == [secs EXCEPT ![k].command = "spawn"]

\* the list parse_config builds for a kind from the given sections
ListBuiltFrom(kind, secs) ==
    IF kind = "key" THEN parse_keys(secs)
    ELSE parse_mouse_bindings(secs, mouse_handle_arg(kind))

\* what a node binds: everything but its link
Binding(kind, node) ==
    <<node.mod, TriggerOf(kind, node), node.func, node.arg>>

\* the sections, over the kinds built so far, whose command is unknown
UnknownCommands ==
    {<<kind, k>> \in BindingKinds \X (1..(MaxBindings + 1)) :
        /\ Built(kind)
        /\ k <= Len(SecsOf(kind))
        /\ SecsOf(kind)[k].command \notin TableNames(UicbList)}

UnknownCommandWarnings ==
    {i \in 1..Len(warnings) : warnings[i][1] = "unknown command"}

\* C7: a binding section whose command is not in the command table still
\* gets its node, at its position, with a null command; one warning is
\* emitted for it; and every other node of the list binds what it would bind
\* had that command been a known one.
C7_UnknownCommandKeepsList ==
    /\ Cardinality(UnknownCommandWarnings) = Cardinality(UnknownCommands)
    /\ \A kind \in BindingKinds :
           Built(kind) =>
               LET secs == SecsOf(kind)
                   nodes == Nodes(ListOf(kind))
               IN  \A k \in 1..Len(secs) :
                       secs[k].command \notin TableNames(UicbList) =>
                           LET other == Nodes(ListBuiltFrom(kind,
                                                  WithKnownCommand(secs, k)))
                           IN  /\ Len(nodes) = Len(secs)
                               /\ nodes[k].func = NULL
                               /\ \E i \in UnknownCommandWarnings :
                                      warnings[i][2] = secs[k].command
                               /\ other[k].func # NULL
                               /\ \A j \in 1..Len(secs) :
                                      j # k => Binding(kind, nodes[j])
                                                 = Binding(kind, other[j])

C7_Witness ==
    /\ pc = "done"
    /\ Len(cfg.keys) = 2
    /\ cfg.keys[1].command = "nonexistent-command"
    /\ cfg.keys[2].command = "spawn"
    /\ Nodes(keys)[1].func = NULL
    /\ Nodes(keys)[2].func = "uicb_spawn"
    /\ warnings = << <<"unknown command", "nonexistent-command">> >>

\* C8: the modifier mask of every binding is the bitwise OR of
\* key_mask_lookup over its declared names: 0 for no names, no bits for a
\* name outside the table, and the same mask for every list of names with
\* the same members (reordered, duplicated).
C8_MaskIsOrOfNames ==
    \A kind \in BindingKinds :
        Built(kind) =>
            \A k \in 1..Len(SecsOf(kind)) :
                LET names == SecsOf(kind)[k].modkey
                    mod == Nodes(ListOf(kind))[k].mod
                IN  /\ IsOrOfMasks(mod, names)
                    /\ names = <<>> => mod = 0
                    /\ Range(names) \cap TableNames(KeyModList) = {} => mod = 0
                    /\ \A other \in SeqsUpTo(Range(names), MaxMods) :
                           Range(other) = Range(names) =>
                               compose_mod(0, other, 0) = mod

C8_Witness ==
    /\ pc = "done"
    /\ \E kind \in BindingKinds :
           /\ Len(SecsOf(kind)) = 1
           /\ SecsOf(kind)[1].modkey = <<"Mod1", "Hyper", "Control">>
           /\ Nodes(ListOf(kind))[1].mod = 12

\* C9: a tag whose declared layout name is a known layout that occurs in its
\* screen's layout list points to the first entry of the list with that
\* layout, and that entry carries the symbol its section declares.
C9_FirstMatchingLayout ==
    \A s \in Screens :
        ScreenDone(s) =>
            \A i \in 1..Len(SectionOf(s).tags) :
                LET lsecs == SectionOf(s).layouts
                    arrange == FuncNamed(SectionOf(s).tags[i].layout, LayoutsList)
                    hits == {k \in 1..Len(lsecs) :
                                FuncNamed(lsecs[k].title, LayoutsList) = arrange}
                IN  arrange # NULL /\ hits # {} =>
                        LET k == screens[s].tags[i].layout
                        IN  /\ k + 1 = Min(hits)
                            /\ screens[s].layouts[k + 1].arrange = arrange
                            /\ screens[s].layouts[k + 1].symbol = lsecs[k + 1].symbol

C9_Witness ==
    /\ pc = "done"
    /\ \E s \in Screens :
           /\ Len(SectionOf(s).layouts) = 2
           /\ SectionOf(s).layouts[1].title = "tile"
           /\ SectionOf(s).layouts[2].title = "max"
           /\ SectionOf(s).tags[1].layout = "max"
           /\ screens[s].tags[1].layout = 1
           /\ screens[s].layouts[2].symbol = SectionOf(s).layouts[2].symbol

\* the screen sections the configuration file declares
DeclaredScreenSecs ==
    IF file.readable THEN file.doc.screen ELSE <<>>

\* C10 as claimed: screen i is configured from the section titled with the
\* decimal string of i if there is one, else from an untitled section if
\* there is one, else from the built-in document's section; never from a
\* section titled for another screen.
C10_SectionChoice ==
    \A s \in Screens :
        ScreenDone(s) =>
            LET secs == DeclaredScreenSecs
                titles == {secs[i].title : i \in 1..Len(secs)}
                used == screens[s].sec
            IN  /\ Decimal(s) \in titles
                    => used <= Len(secs) /\ cfg.screen[used].title = Decimal(s)
                /\ Decimal(s) \notin titles /\ <<>> \in titles
                    => used <= Len(secs) /\ cfg.screen[used].title = <<>>
                /\ Decimal(s) \notin titles /\ <<>> \notin titles
                    => used > Len(secs)
                /\ cfg.screen[used].title \in {<<>>, Decimal(s)}

\* C10, clause (a) alone: when a section titled with the decimal string of
\* i is declared, screen i is configured from it.
C10_OwnSectionUsed ==
    \A s \in Screens :
        ScreenDone(s) =>
            \A i \in 1..Len(DeclaredScreenSecs) :
                DeclaredScreenSecs[i].title = Decimal(s)
                    => cfg.screen[screens[s].sec].title = Decimal(s)

\* the modifier slots (0..7) one of whose entries is the Num Lock key code;
\* none when Num Lock has no key code
NumLockSlots ==
    IF keyboard.numlock = 0 THEN {}
    ELSE {i \in 0..(ModifierSlots - 1) :
             \E j \in 1..keyboard.max_keypermod :
                 keyboard.modifiermap[i * keyboard.max_keypermod + j]
                     = keyboard.numlock}

\* C11 as claimed: numlockmask is 1 << i for a modifier slot i mapped to
\* Num Lock, and 0 when no slot is mapped to Num Lock, also when Num Lock
\* has no key code and the modifier map has unused (0) entries.
C11_NumLockMask ==
    pc = "done" =>
        /\ NumLockSlots # {} => \E i \in NumLockSlots : numlockmask = Pow2(i)
        /\ NumLockSlots = {} => numlockmask = 0

\* C12: every node of the tag pointer list has a null argument, whatever
\* its section holds; every node of the layout, title, root and client
\* pointer lists and of the key list has the argument its own section
\* declares, null when it declares none.
C12_ArgOnlyWhereHandled ==
    \A kind \in BindingKinds :
        Built(kind) =>
            /\ Len(Nodes(ListOf(kind))) = Len(SecsOf(kind))
            /\ \A k \in 1..Len(SecsOf(kind)) :
                   Nodes(ListOf(kind))[k].arg =
                       IF kind = "tag" THEN NULL ELSE SecsOf(kind)[k].arg

C12_Witness ==
    /\ pc = "done"
    /\ \A kind \in BindingKinds :
           /\ Len(SecsOf(kind)) = 2
           /\ SecsOf(kind)[1].arg = "xterm"
           /\ SecsOf(kind)[2].arg = NULL
    /\ Nodes(buttons["tag"])[1].arg = NULL
    /\ \A kind \in BindingKinds \ {"tag"} :
           /\ Nodes(ListOf(kind))[1].arg = "xterm"
           /\ Nodes(ListOf(kind))[2].arg = NULL

====
